---- MODULE Spec2Model ----
(***************************************************************************)
(* Model of clean_logs.py: the per-line classifier clean_logger_line and   *)
(* the file pass clean_file.  A Python str is modelled as a sequence of    *)
(* Unicode code points (naturals), so substring tests, the regular         *)
(* expression substitutions and the read/write of files act on the         *)
(* characters themselves.                                                  *)
(***************************************************************************)
EXTENDS Integers, Sequences, FiniteSets, TLC

VARIABLES line, result, result2, lpc,
          fs, pc, input_path, output_path, lines, idx, cleaned_lines,
          removed_count, stdout, runs, rerun

lvars == <<line, result, result2, lpc>>
fvars == <<fs, pc, input_path, output_path, lines, idx, cleaned_lines,
           removed_count, stdout, runs, rerun>>
vars == <<line, result, result2, lpc,
          fs, pc, input_path, output_path, lines, idx, cleaned_lines,
          removed_count, stdout, runs, rerun>>

----------------------------------------------------------------------------
(* Bounds of the checked input space. *)

\* most atoms in the body of a line given to clean_logger_line
MaxAtoms == 4

\* most lines in the input file of the first clean_file run
MaxLines == 3

\* most clean_file runs in one behaviour
MaxRuns == 2

----------------------------------------------------------------------------
(* Characters and the literals of the source. *)

BACKTICK == 96
SQUOTE == 39
DQUOTE == 34
SPACE == 32
NEWLINE == 10

\* 'logger.info', 'logger.error', 'logger.warn', '==='
LOGGER_INFO == <<108, 111, 103, 103, 101, 114, 46, 105, 110, 102, 111>>
LOGGER_ERROR == <<108, 111, 103, 103, 101, 114, 46, 101, 114, 114, 111, 114>>
LOGGER_WARN == <<108, 111, 103, 103, 101, 114, 46, 119, 97, 114, 110>>
MARKER == <<61, 61, 61>>

\* the emojis list, in source order; the sixth holds two code points
\* (U+26A0 U+FE0F), every other one a single code point
emojis ==
  << <<127919>>, <<9989>>, <<128202>>, <<128203>>, <<128237>>,
     <<9888, 65039>>, <<10060>>, <<128269>>, <<129514>>, <<128275>>,
     <<128230>>, <<128273>>, <<128279>>, <<128197>>, <<127973>>,
     <<127970>>, <<127793>>, <<128100>>, <<128196>>, <<127760>>,
     <<10133>> >>

\* the value None returned for a deleted line (no str holds a negative
\* code point)
None == <<-1>>

\* the characters the pattern \s matches in a str pattern
IsSpace(c) ==
  c \in ({9, 10, 11, 12, 13, 28, 29, 30, 31, 32, 133, 160, 5760}
         \cup (8192..8202) \cup {8232, 8233, 8239, 8287, 12288})

\* Python's  sub in s  for str
Contains(sub, s) ==
  \E i \in 0..(Len(s) - Len(sub)) : SubSeq(s, i + 1, i + Len(sub)) = sub

----------------------------------------------------------------------------
(* re.sub(rf'({d}{emoji}\s+)', d, line) *)

\* WsEnd for the pattern \s in place of \s+: one whitespace character
WsEndOne(s, j) == j

\* index of the last character of the whitespace run that starts at index
\* j (\s+ is greedy and nothing follows it in the pattern)
WsEnd(s, j) ==
  CHOOSE e \in j..Len(s) :
    /\ \A k \in j..e : IsSpace(s[k])
    /\ (e = Len(s) \/ ~IsSpace(s[e + 1]))

\* index of the last character of the match of  d emoji \s+  that starts
\* at index i, or 0 when there is no match at i
MatchEnd(s, i, d, emoji) ==
  LET n == Len(emoji) IN
  IF /\ s[i] = d
     /\ i + n + 1 <= Len(s)
     /\ SubSeq(s, i + 1, i + n) = emoji
     /\ IsSpace(s[i + n + 1])
  THEN WsEnd(s, i + n + 1)
  ELSE 0

RECURSIVE re_sub(_, _, _)
\* re.sub of the pattern  (d emoji \s+)  by d: the leftmost match is
\* replaced by the delimiter and the scan goes on after the match
re_sub(d, emoji, s) ==
  LET starts == { i \in 1..Len(s) : MatchEnd(s, i, d, emoji) > 0 } IN
  IF starts = {} THEN s
  ELSE LET i == CHOOSE m \in starts : \A o \in starts : m <= o
           e == MatchEnd(s, i, d, emoji)
       IN SubSeq(s, 1, i) \o re_sub(d, emoji, SubSeq(s, e + 1, Len(s)))

\* one iteration of the loop over emojis: the three substitutions in order
StripOne(emoji, s) ==
  re_sub(DQUOTE, emoji, re_sub(SQUOTE, emoji, re_sub(BACKTICK, emoji, s)))

RECURSIVE StripLoop(_, _)
\* the for loop over emojis from the k-th entry on.  The three patterns of
\* an iteration hold the emoji literally, so an iteration whose emoji does
\* not occur in the line leaves the line as it is.
StripLoop(s, k) ==
  IF k > Len(emojis) THEN s
  ELSE IF Contains(emojis[k], s) THEN StripLoop(StripOne(emojis[k], s), k + 1)
  ELSE StripLoop(s, k + 1)

HasEmoji(s) == \E k \in 1..Len(emojis) : Contains(emojis[k], s)

IsWarnOrError(s) == Contains(LOGGER_ERROR, s) \/ Contains(LOGGER_WARN, s)

\* clean_logger_line without the emoji test of the info branch
CleanNoEmojiTest(s) ==
  IF Contains(LOGGER_INFO, s) /\ Contains(MARKER, s)
  THEN None
  ELSE IF IsWarnOrError(s) THEN StripLoop(s, 1) ELSE s

\* clean_logger_line with the === test outside the info branch
CleanMarkerAnywhere(s) ==
  IF Contains(MARKER, s) \/ (Contains(LOGGER_INFO, s) /\ HasEmoji(s))
  THEN None
  ELSE IF IsWarnOrError(s) THEN StripLoop(s, 1) ELSE s

\* clean_logger_line with the substitutions applied to every retained line
CleanStripAlways(s) ==
  IF Contains(LOGGER_INFO, s) /\ (Contains(MARKER, s) \/ HasEmoji(s))
  THEN None
  ELSE StripLoop(s, 1)

clean_logger_line(s) ==
  IF Contains(LOGGER_INFO, s) /\ (Contains(MARKER, s) \/ HasEmoji(s))
  THEN None
  ELSE IF IsWarnOrError(s) THEN StripLoop(s, 1) ELSE s

----------------------------------------------------------------------------
(* Input lines: a head (the log calls of the line), a body of atoms and    *)
(* an optional line terminator, as readlines() yields them.                *)

Heads ==
  { <<>>, LOGGER_INFO, LOGGER_ERROR, LOGGER_WARN, LOGGER_INFO \o LOGGER_WARN }

\* the text x
TEXT == <<120>>

Atoms ==
  { <<SQUOTE>>, <<DQUOTE>>, <<SPACE>>, TEXT, MARKER,
    emojis[1], emojis[6] }

AtomSeqs == UNION { [1..n -> Atoms] : n \in 0..MaxAtoms }

RECURSIVE Flatten(_)
\* ''.join(ss): the concatenation of a sequence of strings
Flatten(ss) == IF ss = <<>> THEN <<>> ELSE Head(ss) \o Flatten(Tail(ss))

InputLines ==
  { h \o Flatten(as) \o t : h \in Heads, as \in AtomSeqs,
                            t \in {<<>>, <<NEWLINE>>} }

\* marks a result that has not been computed
NotYet == <<-2>>

LineInit ==
  /\ line \in InputLines
  /\ result = NotYet
  /\ result2 = NotYet
  /\ lpc = "start"
  /\ fs = <<>> /\ pc = "off" /\ input_path = "" /\ output_path = ""
  /\ lines = <<>> /\ idx = 0 /\ cleaned_lines = <<>> /\ removed_count = 0
  /\ stdout = <<>> /\ runs = 0 /\ rerun = FALSE

\* clean_logger_line(line)
Classify ==
  /\ lpc = "start"
  /\ result' = clean_logger_line(line)
  /\ lpc' = "classified"
  /\ UNCHANGED <<line, result2>>
  /\ UNCHANGED fvars

\* clean_logger_line applied to a retained result
Reclassify ==
  /\ lpc = "classified"
  /\ result # None
  /\ result2' = clean_logger_line(result)
  /\ lpc' = "reclassified"
  /\ UNCHANGED <<line, result>>
  /\ UNCHANGED fvars

LineNext == Classify \/ Reclassify

SpecLine == LineInit /\ [][LineNext]_vars

----------------------------------------------------------------------------
(* clean_file: files are strings; readlines() splits after every newline   *)
(* and writelines() concatenates.                                          *)

INPUT_FILE == "priorityService.ts"
OUTPUT_FILE == "priorityService.ts.cleaned"
Paths == {INPUT_FILE, OUTPUT_FILE}

\* the calls clean_file(ip, op): from one of the two paths to the other
Calls == { c \in Paths \X Paths : c[1] # c[2] }

\* content of a path that does not exist
Missing == <<-3>>

RECURSIVE readlines(_)
\* f.readlines(): every line keeps its newline; the last line may have none
readlines(c) ==
  IF c = <<>> THEN <<>>
  ELSE LET ends == { i \in 1..Len(c) : c[i] = NEWLINE \/ i = Len(c) }
           e == CHOOSE m \in ends : \A o \in ends : m <= o
       IN <<SubSeq(c, 1, e)>> \o readlines(SubSeq(c, e + 1, Len(c)))

\* f.writelines(ls)
writelines(ls) == Flatten(ls)

\* the lines (without terminator) the input file is made of
FileLines ==
  { LOGGER_INFO \o TEXT,
    LOGGER_INFO \o MARKER,
    LOGGER_INFO \o <<SQUOTE>> \o emojis[6] \o <<SPACE>> \o TEXT,
    LOGGER_ERROR \o <<SQUOTE>> \o emojis[6] \o <<SPACE>> \o TEXT,
    LOGGER_ERROR \o MARKER \o <<SQUOTE>> \o emojis[6],
    LOGGER_WARN \o <<SQUOTE>> \o emojis[6] \o <<SPACE>> \o emojis[1]
                \o <<SPACE>> \o TEXT }

LineSeqs == UNION { [1..m -> FileLines] : m \in 0..MaxLines }

\* the file made of the lines ls, the last one with a newline iff nl
FileOf(ls, nl) ==
  Flatten([ i \in 1..Len(ls) |->
              IF i = Len(ls) /\ ~nl THEN ls[i] ELSE ls[i] \o <<NEWLINE>> ])

\* the input files: up to MaxLines lines, the last with or without newline
InputFiles == { FileOf(ls, nl) : ls \in LineSeqs, nl \in BOOLEAN }

Init ==
  /\ line = <<>> /\ result = NotYet /\ result2 = NotYet /\ lpc = "off"
  /\ \E c \in InputFiles :
       fs = [ p \in Paths |-> IF p = INPUT_FILE THEN c ELSE Missing ]
  /\ pc = "idle"
  /\ input_path = "" /\ output_path = ""
  /\ lines = <<>> /\ idx = 0 /\ cleaned_lines = <<>> /\ removed_count = 0
  /\ stdout = <<>> /\ runs = 0 /\ rerun = FALSE

\* clean_file(ip, op) up to the end of readlines()
ReadInput(ip, op) ==
  /\ pc = "idle"
  /\ runs < MaxRuns
  /\ fs[ip] # Missing
  /\ input_path' = ip
  /\ output_path' = op
  /\ lines' = readlines(fs[ip])
  /\ cleaned_lines' = <<>>
  /\ removed_count' = 0
  /\ idx' = 0
  /\ rerun' = (\E m \in 1..Len(stdout) : stdout[m].path = ip)
  /\ pc' = "loop"
  /\ runs' = runs + 1
  /\ UNCHANGED <<fs, stdout>>
  /\ UNCHANGED lvars

\* clean_file(ip, op) when open(ip) raises: nothing is written or printed
\* and the exception ends the program
OpenFails(ip, op) ==
  /\ pc = "idle"
  /\ runs < MaxRuns
  /\ fs[ip] = Missing
  /\ pc' = "failed"
  /\ UNCHANGED <<fs, input_path, output_path, lines, idx, cleaned_lines,
                 removed_count, stdout, runs, rerun>>
  /\ UNCHANGED lvars

\* LoopStep with the retained line put in front of the collected ones
LoopStepPrepend ==
  /\ pc = "loop"
  /\ idx < Len(lines)
  /\ LET cleaned == clean_logger_line(lines[idx + 1]) IN
       IF cleaned = None
       THEN /\ removed_count' = removed_count + 1
            /\ UNCHANGED cleaned_lines
       ELSE /\ cleaned_lines' = <<cleaned>> \o cleaned_lines
            /\ UNCHANGED removed_count
  /\ idx' = idx + 1
  /\ UNCHANGED <<fs, pc, input_path, output_path, lines, stdout, runs, rerun>>
  /\ UNCHANGED lvars

\* one iteration of  for line in lines
LoopStep ==
  /\ pc = "loop"
  /\ idx < Len(lines)
  /\ LET cleaned == clean_logger_line(lines[idx + 1]) IN
       IF cleaned = None
       THEN /\ removed_count' = removed_count + 1
            /\ UNCHANGED cleaned_lines
       ELSE /\ cleaned_lines' = Append(cleaned_lines, cleaned)
            /\ UNCHANGED removed_count
  /\ idx' = idx + 1
  /\ UNCHANGED <<fs, pc, input_path, output_path, lines, stdout, runs, rerun>>
  /\ UNCHANGED lvars

\* the loop is over: write the output file and print the two lines
WriteOutput ==
  /\ pc = "loop"
  /\ idx = Len(lines)
  /\ fs' = [fs EXCEPT ![output_path] = writelines(cleaned_lines)]
  /\ stdout' = Append(stdout, [removed |-> removed_count, path |-> output_path])
  /\ pc' = "idle"
  /\ UNCHANGED <<input_path, output_path, lines, idx, cleaned_lines,
                 removed_count, runs, rerun>>
  /\ UNCHANGED lvars

Next ==
  \/ \E c \in Calls : ReadInput(c[1], c[2])
  \/ \E c \in Calls : OpenFails(c[1], c[2])
  \/ LoopStep
  \/ WriteOutput

Spec == Init /\ [][Next]_vars

----------------------------------------------------------------------------
(* Vocabulary of the properties. *)

IsDelim(c) == c \in {BACKTICK, SQUOTE, DQUOTE}

\* the string w stands at index j of s
Occurs(w, s, j) ==
  /\ j >= 1
  /\ j + Len(w) - 1 <= Len(s)
  /\ \A o \in 1..Len(w) : s[j + o - 1] = w[o]

\* the line qualifies for deletion: info-level log call plus === or emoji
Deletable(s) ==
  /\ \E i \in 1..Len(s) : Occurs(LOGGER_INFO, s, i)
  /\ \/ \E i \in 1..Len(s) : Occurs(MARKER, s, i)
     \/ \E k \in 1..Len(emojis), i \in 1..Len(s) : Occurs(emojis[k], s, i)

\* the k-th emoji stands at index j of s
EmojiAt(s, j, k) == Occurs(emojis[k], s, j)

\* the k-th emoji stands at index j followed by whitespace: the index of
\* the last character of that whitespace run, else 0
GroupEnd(s, j, k) ==
  LET w == j + Len(emojis[k]) IN
  IF EmojiAt(s, j, k) /\ w <= Len(s) /\ IsSpace(s[w])
  THEN LET run == { e \in w..Len(s) : \A o \in w..e : IsSpace(s[o]) }
       IN CHOOSE e \in run : \A o \in run : o <= e
  ELSE 0

\* the indices of the emoji-and-whitespace groups that directly follow a
\* delimiter of s
SimRemoved(s) ==
  { j \in 1..Len(s) :
      \E i \in 1..(j - 1), k \in 1..Len(emojis) :
        IsDelim(s[i]) /\ j <= GroupEnd(s, i + 1, k) }

RECURSIVE ChainEnd(_, _, _)
\* the last index of the longest run of groups that starts after index j
\* in which every emoji comes later in the emoji list than the one before
\* (after the k-th)
ChainEnd(s, j, k) ==
  LET next == { m \in (k + 1)..Len(emojis) : GroupEnd(s, j + 1, m) > 0 } IN
  IF next = {} THEN j
  ELSE LET m == CHOOSE m \in next : TRUE IN ChainEnd(s, GroupEnd(s, j + 1, m), m)

ChainRemoved(s) ==
  { j \in 1..Len(s) :
      \E i \in 1..(j - 1) : IsDelim(s[i]) /\ j <= ChainEnd(s, i, 0) }

\* s with the characters at the indices del taken out
Keep(s, del) ==
  LET keep == (1..Len(s)) \ del IN
  [ j \in 1..Cardinality(keep) |->
      s[CHOOSE i \in keep : Cardinality({ o \in keep : o <= i }) = j] ]

RECURSIVE Openers(_, _)
\* the indices of the quote characters that open a quoted message at or
\* after index from, which is outside every quoted message
Openers(s, from) ==
  LET ds == { i \in from..Len(s) : IsDelim(s[i]) } IN
  IF ds = {} THEN {}
  ELSE LET o == CHOOSE m \in ds : \A n \in ds : m <= n
           cs == { i \in (o + 1)..Len(s) : s[i] = s[o] }
       IN IF cs = {} THEN {o}
          ELSE {o} \cup Openers(s, (CHOOSE m \in cs : \A n \in cs : m <= n) + 1)

\* an emoji stands at the very start of a quoted message of s
MessageStartEmoji(s) ==
  \E o \in Openers(s, 1), k \in 1..Len(emojis) : EmojiAt(s, o + 1, k)

\* the emoji occurrences of s
EmojiCount(s) ==
  Cardinality({ p \in (1..Len(s)) \X (1..Len(emojis)) : EmojiAt(s, p[1], p[2]) })

EndsWithNewline(s) == Len(s) > 0 /\ s[Len(s)] = NEWLINE

Classified == lpc \in {"classified", "reclassified"}

\* warn/error line that the classifier retained
RetainedWarnError == Classified /\ IsWarnOrError(line) /\ result # None

----------------------------------------------------------------------------
(* Properties of clean_logger_line, checked under SpecLine. *)

\* C1: idempotence: for every line retained with result R, the classifier
\* applied to R retains it and returns R itself.
C1_Idempotent == lpc = "reclassified" => result2 = result

\* C4: a line with an info-level log call and either === or a configured
\* emoji is deleted, whatever else it holds (a warn or error call included).
C4_DeletionRule == Classified /\ Deletable(line) => result = None

\* C4 witness: an info line with a warn call and an emoji, no ===, deleted.
C4_Witness ==
  /\ Classified /\ result = None
  /\ Contains(LOGGER_INFO, line) /\ Contains(LOGGER_WARN, line)
  /\ HasEmoji(line) /\ ~Contains(MARKER, line)
  /\ \E i \in 1..Len(line) : IsDelim(line[i])

C6_NoEmojiUnchanged ==
  Classified /\ IsWarnOrError(line) /\ ~HasEmoji(line) => result = line

\* C6 amended: a warn/error line without configured emoji that does not
\* hold both an info-level log call and === is returned unchanged.
C6_NoEmojiNotDeletedUnchanged ==
  Classified /\ IsWarnOrError(line) /\ ~HasEmoji(line) /\ ~Deletable(line)
    => result = line

\* C6 witness: a warn line with ===, quotes and no emoji, returned as is.
C6_Witness ==
  /\ Classified /\ result = line
  /\ Contains(LOGGER_WARN, line) /\ Contains(MARKER, line)
  /\ ~HasEmoji(line)
  /\ \E i \in 1..(Len(line) - 1) : IsDelim(line[i]) /\ IsSpace(line[i + 1])

\* C7: a line with an info-level log call and neither === nor emoji, and a
\* line without info, warn or error log call, is returned unchanged.
C7_PassThrough ==
  Classified =>
    /\ (Contains(LOGGER_INFO, line) /\ ~Contains(MARKER, line)
          /\ ~HasEmoji(line) => result = line)
    /\ (~Contains(LOGGER_INFO, line) /\ ~IsWarnOrError(line) => result = line)

\* C7 witness: a line without log call that holds === and an emoji with
\* whitespace right after a delimiter, returned as is.
C7_Witness ==
  /\ Classified /\ result = line
  /\ ~Contains(LOGGER_INFO, line) /\ ~IsWarnOrError(line)
  /\ Contains(MARKER, line)
  /\ SimRemoved(line) # {}

\* C8: on a retained warn/error line in which no emoji stands at the very
\* start of a quoted message, every emoji is left in place.
C8_OnlyMessageStart ==
  RetainedWarnError /\ ~MessageStartEmoji(line)
    => EmojiCount(result) = EmojiCount(line)

\* C9: the result of a retained line that ends with a newline ends with a
\* newline.
C9_TerminatorKept ==
  Classified /\ result # None /\ EndsWithNewline(line)
    => EndsWithNewline(result)

----------------------------------------------------------------------------
(* Properties of clean_file, checked under Spec. *)

\* a clean_file run has written its output and printed its report
Completed == pc = "idle" /\ stdout # <<>>

\* the indices of the lines of ls that the classifier retains
KeptIdx(ls) == { i \in 1..Len(ls) : clean_logger_line(ls[i]) # None }

\* the j-th smallest member of the set of indices K
Nth(K, j) == CHOOSE i \in K : Cardinality({ o \in K : o <= i }) = j

\* the number of lines of ls that qualify for deletion
DeletableCount(ls) == Cardinality({ i \in 1..Len(ls) : Deletable(ls[i]) })

\* C2: after a run over N lines of which D qualify for deletion the output
\* file holds exactly N-D lines and the reported count is D; in the loop
\* removed_count plus the collected lines is the number of lines processed.
C2_Counts ==
  /\ pc = "loop" => removed_count + Len(cleaned_lines) = idx
  /\ Completed =>
       /\ Len(readlines(fs[output_path])) = Len(lines) - DeletableCount(lines)
       /\ stdout[Len(stdout)].removed = DeletableCount(lines)

\* C3: the collected lines are the classifier results of the retained
\* lines processed so far, in the order of the input, and the file written
\* is their concatenation.
C3_OrderPreserved ==
  /\ pc \in {"loop", "idle"} =>
       LET K == KeptIdx(SubSeq(lines, 1, idx)) IN
       /\ Len(cleaned_lines) = Cardinality(K)
       /\ \A j \in 1..Len(cleaned_lines) :
            cleaned_lines[j] = clean_logger_line(lines[Nth(K, j)])
  /\ Completed => fs[output_path] = Flatten(cleaned_lines)

\* C3 witness: a finished run that retained two different lines, one of
\* them rewritten, around a deleted one.
C3_Witness ==
  /\ Completed
  /\ Len(lines) = 3 /\ removed_count = 1 /\ Len(cleaned_lines) = 2
  /\ clean_logger_line(lines[2]) = None
  /\ cleaned_lines[1] # cleaned_lines[2]
  /\ cleaned_lines[1] # lines[1]

\* C10: a second pass over the output of a clean_file run deletes no line.
C10_SecondPassDeletesNothing ==
  rerun /\ pc \in {"loop", "idle"} => removed_count = 0

====
